---- MODULE Spec2Model ----
(***************************************************************************)
(* Model of mcp-server-tm-partner (src/src/index.ts): the handler of the   *)
(* CallTool request, which routes one search_tm_partner invocation to one  *)
(* Ticketmaster Partner API call and formats the answer as JSON or text.   *)
(*                                                                         *)
(* JavaScript values are tagged records.  A string is a sequence of atoms  *)
(* (indivisible non-empty fragments), so the empty string is <<>> and      *)
(* concatenation is \o.  An object is a sequence of <<key, value>> pairs   *)
(* in insertion order.                                                     *)
(***************************************************************************)
EXTENDS Integers, Sequences, FiniteSets

VARIABLES pc, request, calls, upstream, reply, nInvocations, nRecognized, nCalls

vars == <<pc, request, calls, upstream, reply, nInvocations, nRecognized, nCalls>>

(***************************************************************************)
(* Bounds                                                                  *)
(***************************************************************************)
MaxInvocations == 2
MaxElems == 2

(***************************************************************************)
(* JavaScript values                                                       *)
(***************************************************************************)
Undefined == [t |-> "undefined"]
JNull == [t |-> "null"]
JBool(b) == [t |-> "boolean", v |-> b]
JNum(n) == [t |-> "number", v |-> n]
JStr(s) == [t |-> "string", v |-> s]
JArr(a) == [t |-> "array", v |-> a]
JObj(p) == [t |-> "object", v |-> p]

\* ToBoolean: undefined, null, false, 0 and '' are falsy; arrays and objects are truthy
Truthy(x) ==
  CASE x.t = "undefined" -> FALSE
    [] x.t = "null" -> FALSE
    [] x.t = "boolean" -> x.v
    [] x.t = "number" -> x.v # 0
    [] x.t = "string" -> x.v # <<>>
    [] OTHER -> TRUE

\* a || b
Or(a, b) == IF Truthy(a) THEN a ELSE b

\* o?.k : the property k of o, undefined when o has no such property or is not an object
Get(o, k) ==
  IF o.t = "object" /\ \E i \in 1..Len(o.v) : o.v[i][1] = k
  THEN o.v[CHOOSE i \in 1..Len(o.v) : o.v[i][1] = k /\ \A j \in (i+1)..Len(o.v) : o.v[j][1] # k][2]
  ELSE Undefined

\* a[i], 0-indexed
Index(a, i) == IF a.t = "array" /\ i + 1 \in 1..Len(a.v) THEN a.v[i + 1] ELSE Undefined

\* a.length > 0
NonEmptyLength(a) == a.t \in {"array", "string"} /\ Len(a.v) > 0

Digit(d) == <<"0", "1", "2", "3", "4", "5", "6", "7", "8", "9">>[d + 1]

\* Number.prototype.toString on an integer
RECURSIVE NumToStr(_)
NumToStr(n) ==
  IF n < 0 THEN <<"-">> \o NumToStr(-n)
  ELSE IF n < 10 THEN <<Digit(n)>>
  ELSE NumToStr(n \div 10) \o <<Digit(n % 10)>>

\* Array.prototype.join over a sequence of strings
RECURSIVE Join(_, _)
Join(parts, sep) ==
  IF parts = <<>> THEN <<>>
  ELSE IF Len(parts) = 1 THEN parts[1]
  ELSE parts[1] \o sep \o Join(Tail(parts), sep)

\* `${x}` : the string a template literal interpolates for x
RECURSIVE ToString(_)
ToString(x) ==
  CASE x.t = "undefined" -> <<"undefined">>
    [] x.t = "null" -> <<"null">>
    [] x.t = "boolean" -> IF x.v THEN <<"true">> ELSE <<"false">>
    [] x.t = "number" -> NumToStr(x.v)
    [] x.t = "string" -> x.v
    [] x.t = "array" ->
         Join([i \in 1..Len(x.v) |->
                 IF x.v[i].t \in {"undefined", "null"} THEN <<>> ELSE ToString(x.v[i])],
              <<",">>)
    [] OTHER -> <<"[object Object]">>

\* Does text s contain the text sub as a contiguous run?
Contains(s, sub) ==
  \E i \in 0..(Len(s) - Len(sub)) : \A j \in 1..Len(sub) : s[i + j] = sub[j]

\* Does text s begin with the text pre?
StartsWith(s, pre) ==
  Len(pre) <= Len(s) /\ \A j \in 1..Len(pre) : s[j] = pre[j]

(***************************************************************************)
(* Text projections                                                        *)
(***************************************************************************)
formatEventAsText(event) ==
  LET start == Get(Get(event, "dates"), "start")
      venues == Get(Get(event, "_embedded"), "venues")
      venue == Index(venues, 0)
      priceRanges == Get(event, "priceRanges")
      range == Index(priceRanges, 0)
      header == <<"Event: ">> \o ToString(Get(event, "name")) \o <<" (ID: ">>
                  \o ToString(Get(event, "id")) \o <<")">>
      dateLines ==
        IF Truthy(start)
        THEN << <<"Date/Time: ">> \o ToString(Or(Get(start, "localDate"), JStr(<<"TBD">>)))
                  \o <<" at ">> \o ToString(Or(Get(start, "localTime"), JStr(<<"TBD">>))) >>
        ELSE <<>>
      venueLines ==
        IF Truthy(venues) /\ NonEmptyLength(venues)
        THEN << <<"Venue: ">> \o ToString(Get(venue, "name")) >>
             \o (IF Truthy(Get(Get(venue, "city"), "name"))
                 THEN << <<"Location: ">> \o ToString(Get(Get(venue, "city"), "name"))
                           \o (IF Truthy(Get(venue, "state"))
                               THEN <<", ">> \o ToString(Get(Get(venue, "state"), "stateCode"))
                               ELSE <<>>) >>
                 ELSE <<>>)
        ELSE <<>>
      priceLines ==
        IF Truthy(priceRanges) /\ NonEmptyLength(priceRanges)
        THEN << <<"Price Range: $">> \o ToString(Get(range, "min")) \o <<" - $">>
                  \o ToString(Get(range, "max")) \o <<" ">> \o ToString(Get(range, "currency")) >>
        ELSE <<>>
      urlLines ==
        IF Truthy(Get(event, "url"))
        THEN << <<"URL: ">> \o ToString(Get(event, "url")) >>
        ELSE <<>>
  IN Join(<<header>> \o dateLines \o venueLines \o priceLines \o urlLines, <<"\n">>)

formatVenueAsText(venue) ==
  LET header == <<"Venue: ">> \o ToString(Get(venue, "name")) \o <<" (ID: ">>
                  \o ToString(Get(venue, "id")) \o <<")">>
      line1 == Get(Get(venue, "address"), "line1")
      cityName == Get(Get(venue, "city"), "name")
      stateCode == Get(Get(venue, "state"), "stateCode")
      countryCode == Get(Get(venue, "country"), "countryCode")
      location == <<ToString(cityName)>>
                    \o (IF Truthy(stateCode) THEN <<ToString(stateCode)>> ELSE <<>>)
                    \o (IF Truthy(countryCode) THEN <<ToString(countryCode)>> ELSE <<>>)
      addressLines == IF Truthy(line1) THEN << <<"Address: ">> \o ToString(line1) >> ELSE <<>>
      locationLines ==
        IF Truthy(cityName) THEN << <<"Location: ">> \o Join(location, <<", ">>) >> ELSE <<>>
      urlLines ==
        IF Truthy(Get(venue, "url"))
        THEN << <<"URL: ">> \o ToString(Get(venue, "url")) >>
        ELSE <<>>
  IN Join(<<header>> \o addressLines \o locationLines \o urlLines, <<"\n">>)

formatAttractionAsText(attraction) ==
  LET header == <<"Attraction: ">> \o ToString(Get(attraction, "name")) \o <<" (ID: ">>
                  \o ToString(Get(attraction, "id")) \o <<")">>
      cls == Get(attraction, "classifications")
      flagged == {i \in 1..Len(cls.v) : Truthy(Get(cls.v[i], "primary"))}
      found == IF flagged = {} THEN Undefined
               ELSE cls.v[CHOOSE i \in flagged : \A j \in flagged : i <= j]
      primary == Or(found, Index(cls, 0))
      segment == Get(Get(primary, "segment"), "name")
      genre == Get(Get(primary, "genre"), "name")
      classInfo == (IF Truthy(segment) THEN <<ToString(segment)>> ELSE <<>>)
                     \o (IF Truthy(genre) THEN <<ToString(genre)>> ELSE <<>>)
      classLines ==
        IF Truthy(cls) /\ cls.t = "array" /\ NonEmptyLength(cls) /\ Len(classInfo) > 0
        THEN << <<"Classification: ">> \o Join(classInfo, <<" - ">>) >>
        ELSE <<>>
      urlLines ==
        IF Truthy(Get(attraction, "url"))
        THEN << <<"URL: ">> \o ToString(Get(attraction, "url")) >>
        ELSE <<>>
  IN Join(<<header>> \o classLines \o urlLines, <<"\n">>)

(***************************************************************************)
(* JSON.stringify(value, null, 2)                                          *)
(***************************************************************************)
\* a string literal: quotes and backslashes inside it are escaped
RECURSIVE Escape(_)
Escape(s) ==
  IF s = <<>> THEN <<>>
  ELSE (IF Head(s) \in {"\"", "\\"} THEN <<"\\", Head(s)>> ELSE <<Head(s)>>) \o Escape(Tail(s))

Quote(s) == <<"\"">> \o Escape(s) \o <<"\"">>

Indent(depth) == [i \in 1..depth |-> "  "]

\* the properties JSON.stringify keeps: those whose value is not undefined
RECURSIVE Serializable(_)
Serializable(props) ==
  IF props = <<>> THEN <<>>
  ELSE (IF Head(props)[2].t = "undefined" THEN <<>> ELSE <<Head(props)>>)
         \o Serializable(Tail(props))

RECURSIVE JSONStringify(_, _)
JSONStringify(x, depth) ==
  CASE x.t \in {"null", "undefined"} -> <<"null">>
    [] x.t = "boolean" -> IF x.v THEN <<"true">> ELSE <<"false">>
    [] x.t = "number" -> NumToStr(x.v)
    [] x.t = "string" -> Quote(x.v)
    [] x.t = "array" ->
         IF x.v = <<>> THEN <<"[]">>
         ELSE <<"[", "\n">>
                \o Join([i \in 1..Len(x.v) |->
                           Indent(depth + 1) \o JSONStringify(x.v[i], depth + 1)],
                        <<",", "\n">>)
                \o <<"\n">> \o Indent(depth) \o <<"]">>
    [] OTHER ->
         LET props == Serializable(x.v)
         IN IF props = <<>> THEN <<"{}">>
            ELSE <<"{", "\n">>
                   \o Join([i \in 1..Len(props) |->
                              Indent(depth + 1) \o Quote(<<props[i][1]>>) \o <<":", " ">>
                                \o JSONStringify(props[i][2], depth + 1)],
                           <<",", "\n">>)
                   \o <<"\n">> \o Indent(depth) \o <<"}">>

(***************************************************************************)
(* Errors.  An McpError is kept as the arguments of its constructor; its   *)
(* message property carries the prefix the SDK puts before the message.    *)
(***************************************************************************)
InvalidParams == -32602
MethodNotFound == -32601
InternalError == -32603

McpError(code, message) == [name |-> "McpError", code |-> code, message |-> message]

TypeError(message) == [name |-> "TypeError", message |-> message]

\* what axios rejects with: response is set when the upstream answered, request
\* when the request left the process
AxiosError(message, req, res) ==
  [name |-> "AxiosError", message |-> message, request |-> req, response |-> res]

\* error.k for the properties the catch block reads
ErrorProp(error, k) ==
  IF k = "message"
  THEN IF error.name = "McpError"
       THEN JStr(<<"MCP error ">> \o NumToStr(error.code) \o <<": ">> \o error.message)
       ELSE JStr(error.message)
  ELSE IF k \in DOMAIN error THEN error[k] ELSE Undefined

\* slip: the status text is reported and the message of the body is ignored
CatchBlock_statusTextOnly(error) ==
  LET response == ErrorProp(error, "response")
  IN IF Truthy(response)
     THEN McpError(InternalError,
            <<"Ticketmaster Partner API error: ">> \o ToString(Get(response, "status"))
              \o <<" - ">> \o ToString(Get(response, "statusText")))
     ELSE IF Truthy(ErrorProp(error, "request"))
     THEN McpError(InternalError, <<"No response from Ticketmaster Partner API">>)
     ELSE McpError(InternalError, <<"Error: ">> \o ToString(ErrorProp(error, "message")))

\* slip: error.request is tested before error.response
CatchBlock_requestFirst(error) ==
  LET response == ErrorProp(error, "response")
  IN IF Truthy(ErrorProp(error, "request"))
     THEN McpError(InternalError, <<"No response from Ticketmaster Partner API">>)
     ELSE IF Truthy(response)
     THEN McpError(InternalError,
            <<"Ticketmaster Partner API error: ">> \o ToString(Get(response, "status"))
              \o <<" - ">>
              \o ToString(Or(Get(Get(response, "data"), "message"),
                             Get(response, "statusText"))))
     ELSE McpError(InternalError, <<"Error: ">> \o ToString(ErrorProp(error, "message")))

CatchBlock(error) ==
  LET response == ErrorProp(error, "response")
  IN IF Truthy(response)
     THEN McpError(InternalError,
            <<"Ticketmaster Partner API error: ">> \o ToString(Get(response, "status"))
              \o <<" - ">>
              \o ToString(Or(Get(Get(response, "data"), "message"),
                             Get(response, "statusText"))))
     ELSE IF Truthy(ErrorProp(error, "request"))
     THEN McpError(InternalError, <<"No response from Ticketmaster Partner API">>)
     ELSE McpError(InternalError, <<"Error: ">> \o ToString(ErrorProp(error, "message")))

(***************************************************************************)
(* TicketmasterPartnerAPIClient: each method issues one GET                *)
(***************************************************************************)
searchEvents(params) == [method |-> "GET", url |-> <<"/events">>, params |-> params]

\* slip: the identifier is sent as a filter of the search endpoint
getEvent_viaSearch(id) == [method |-> "GET", url |-> <<"/events">>, params |-> [id |-> id]]

getEvent(id) == [method |-> "GET", url |-> <<"/events/">> \o ToString(id), params |-> Undefined]

searchVenues(params) == [method |-> "GET", url |-> <<"/venues">>, params |-> params]

getVenue(id) == [method |-> "GET", url |-> <<"/venues/">> \o ToString(id), params |-> Undefined]

searchAttractions(params) == [method |-> "GET", url |-> <<"/attractions">>, params |-> params]

getAttraction(id) ==
  [method |-> "GET", url |-> <<"/attractions/">> \o ToString(id), params |-> Undefined]

\* axios' default validateStatus, which the client does not override
ValidateStatus(status) == status >= 200 /\ status < 300

(***************************************************************************)
(* The CallTool handler                                                    *)
(***************************************************************************)
ToolName == "search_tm_partner"

\* the destructuring of the arguments, with its three defaults
Destructure(args) ==
  [args EXCEPT !.size = IF @ = Undefined THEN JNum(20) ELSE @,
               !.page = IF @ = Undefined THEN JNum(0) ELSE @,
               !.format = IF @ = Undefined THEN JStr(<<"json">>) ELSE @]

RecognizedType(type) == type \in {JStr(<<"event">>), JStr(<<"venue">>), JStr(<<"attraction">>)}

\* the event branch of the routing: the calls it issues for the destructured arguments a
RouteEvent(a) ==
  IF Truthy(a.eventId)
  THEN <<getEvent(a.eventId)>>
  ELSE <<searchEvents([keyword |-> a.keyword, attractionId |-> a.attractionId,
                       venueId |-> a.venueId, postalCode |-> a.postalCode,
                       latlong |-> a.latlong, radius |-> a.radius, unit |-> a.unit,
                       startDateTime |-> a.startDateTime, endDateTime |-> a.endDateTime,
                       size |-> a.size, page |-> a.page, sort |-> a.sort, city |-> a.city,
                       countryCode |-> a.countryCode, stateCode |-> a.stateCode,
                       classificationName |-> a.classificationName])>>

\* slip: the identifier wins over the keyword, as it does for events
RouteVenue_idWins(a) ==
  IF Truthy(a.venueId)
  THEN <<getVenue(a.venueId)>>
  ELSE <<searchVenues([keyword |-> a.keyword, size |-> a.size, page |-> a.page,
                       sort |-> a.sort, city |-> a.city, countryCode |-> a.countryCode,
                       stateCode |-> a.stateCode, postalCode |-> a.postalCode,
                       latlong |-> a.latlong, radius |-> a.radius, unit |-> a.unit])>>

RouteVenue(a) ==
  IF Truthy(a.venueId) /\ ~Truthy(a.keyword)
  THEN <<getVenue(a.venueId)>>
  ELSE <<searchVenues([keyword |-> a.keyword, size |-> a.size, page |-> a.page,
                       sort |-> a.sort, city |-> a.city, countryCode |-> a.countryCode,
                       stateCode |-> a.stateCode, postalCode |-> a.postalCode,
                       latlong |-> a.latlong, radius |-> a.radius, unit |-> a.unit])>>

\* slip: a retry, the search is issued a second time
RouteAttraction_twice(a) ==
  IF Truthy(a.attractionId) /\ ~Truthy(a.keyword)
  THEN <<getAttraction(a.attractionId), getAttraction(a.attractionId)>>
  ELSE <<searchAttractions([keyword |-> a.keyword, size |-> a.size, page |-> a.page,
                            sort |-> a.sort,
                            classificationName |-> a.classificationName]),
         searchAttractions([keyword |-> a.keyword, size |-> a.size, page |-> a.page,
                            sort |-> a.sort,
                            classificationName |-> a.classificationName])>>

RouteAttraction(a) ==
  IF Truthy(a.attractionId) /\ ~Truthy(a.keyword)
  THEN <<getAttraction(a.attractionId)>>
  ELSE <<searchAttractions([keyword |-> a.keyword, size |-> a.size, page |-> a.page,
                            sort |-> a.sort,
                            classificationName |-> a.classificationName])>>

Route(a) ==
  IF a.type = JStr(<<"event">>) THEN RouteEvent(a)
  ELSE IF a.type = JStr(<<"venue">>) THEN RouteVenue(a)
  ELSE IF a.type = JStr(<<"attraction">>) THEN RouteAttraction(a)
  ELSE <<>>

InvalidTypeError(type) ==
  McpError(InvalidParams,
           <<"Invalid search type: ">> \o ToString(type)
             \o <<". Must be 'event', 'venue', or 'attraction'.">>)

UnknownToolError(name) == McpError(MethodNotFound, <<"Unknown tool: ", name>>)

\* the handler up to its first suspension: the calls issued and the error
\* thrown inside the try block, if any
Dispatch(name, args) ==
  IF name = ToolName
  THEN IF args = Undefined
       THEN [calls |-> <<>>,
             thrown |-> TypeError(<<"Cannot destructure property 'type' of 'args' as it is undefined.">>)]
       ELSE LET a == Destructure(args)
            IN IF RecognizedType(a.type)
               THEN [calls |-> Route(a), thrown |-> Undefined]
               ELSE [calls |-> <<>>, thrown |-> InvalidTypeError(a.type)]
  ELSE [calls |-> <<>>, thrown |-> UnknownToolError(name)]

\* slip: a separator without the blank lines
Separator_tight == <<"\n---\n">>

Separator == <<"\n\n---\n\n">>

\* the text the text branch builds before the 'No results found.' fallback
TextOutput(type, results) ==
  LET embedded == Get(results, "_embedded")
      Map(list, f(_)) == [i \in 1..Len(list.v) |-> f(list.v[i])]
  IN IF Truthy(embedded)
     THEN IF Truthy(Get(embedded, "events"))
          THEN Join(Map(Get(embedded, "events"), formatEventAsText), Separator)
          ELSE IF Truthy(Get(embedded, "venues"))
          THEN Join(Map(Get(embedded, "venues"), formatVenueAsText), Separator)
          ELSE IF Truthy(Get(embedded, "attractions"))
          THEN Join(Map(Get(embedded, "attractions"), formatAttractionAsText), Separator)
          ELSE <<>>
     ELSE IF type = JStr(<<"event">>) THEN formatEventAsText(results)
     ELSE IF type = JStr(<<"venue">>) THEN formatVenueAsText(results)
     ELSE IF type = JStr(<<"attraction">>) THEN formatAttractionAsText(results)
     ELSE <<>>

\* slip: only the embedded payload is serialized
JsonBranch_embeddedOnly(results) == JSONStringify(Get(results, "_embedded"), 0)

\* the JSON branch: the body, pretty-printed
JsonBranch(results) == JSONStringify(results, 0)

\* the handler after the upstream body arrived: the text returned, or the
\* error thrown inside the try block
FormatOutput(type, format, results) ==
  IF format = JStr(<<"text">>)
  THEN IF results.t \in {"null", "undefined"}
       THEN [thrown |-> TypeError(<<"Cannot read properties of ">> \o ToString(results)
                                    \o <<" (reading '_embedded')">>)]
       ELSE [thrown |-> Undefined,
             text |-> Or(JStr(TextOutput(type, results)), JStr(<<"No results found.">>)).v]
  ELSE [thrown |-> Undefined, text |-> JsonBranch(results)]

(***************************************************************************)
(* Inputs: tool calls                                                      *)
(***************************************************************************)
S(a) == JStr(<<a>>)

Types == {S("event"), S("venue"), S("attraction"), S("bogus"), Undefined}
Keywords == {Undefined, JStr(<<>>), S("rock")}
EventIds == {Undefined, JStr(<<>>), S("E1")}
VenueIds == {Undefined, JStr(<<>>), S("V1")}
AttractionIds == {Undefined, JStr(<<>>), S("A1")}
Formats == {Undefined, S("json"), S("text")}

\* the arguments object; extra says whether the remaining filters are supplied
MkArgs(type, keyword, eventId, venueId, attractionId, extra, format) ==
  LET opt(x) == IF extra THEN x ELSE Undefined
  IN [type |-> type, keyword |-> keyword, eventId |-> eventId, venueId |-> venueId,
      attractionId |-> attractionId,
      startDateTime |-> opt(S("2026-01-01T00:00:00Z")),
      endDateTime |-> opt(S("2026-12-31T00:00:00Z")),
      city |-> opt(S("Austin")), stateCode |-> opt(S("TX")), countryCode |-> opt(S("US")),
      postalCode |-> opt(S("78701")), latlong |-> opt(S("30.26,-97.74")),
      radius |-> opt(S("25")), unit |-> opt(S("miles")),
      classificationName |-> opt(JArr(<<S("Music")>>)),
      size |-> opt(JNum(50)), page |-> opt(JNum(2)), sort |-> opt(S("date,asc")),
      format |-> format]

ArgsOver(types, keywords, eventIds, venueIds, attractionIds, extras, formats) ==
  {MkArgs(ty, k, e, v, a, x, f) :
     ty \in types, k \in keywords, e \in eventIds, v \in venueIds, a \in attractionIds,
     x \in extras, f \in formats}

AllArgs == ArgsOver(Types, Keywords, EventIds, VenueIds, AttractionIds, BOOLEAN, Formats)

\* the arguments of the runs that exercise the formatter: every type and route,
\* every format, no further filters
FormatArgs ==
  ArgsOver({S("event"), S("venue"), S("attraction")}, {Undefined, S("rock")},
           {Undefined, S("E1")}, {Undefined, S("V1")}, {Undefined, S("A1")}, {FALSE},
           Formats)

Requests ==
  {[name |-> ToolName, arguments |-> a] : a \in AllArgs \cup {Undefined}}
    \cup {[name |-> "other_tool", arguments |-> a] :
            a \in {Undefined,
                   MkArgs(S("event"), Undefined, S("E1"), Undefined, Undefined, FALSE,
                          Undefined)}}

FormatRequests == {[name |-> ToolName, arguments |-> a] : a \in FormatArgs}

(***************************************************************************)
(* Inputs: upstream bodies                                                 *)
(***************************************************************************)
VenueMin == JObj(<< <<"id", S("v0")>>, <<"name", S("Hall")>> >>)

VenueFull ==
  JObj(<< <<"id", S("v1")>>, <<"name", S("Arena")>>, <<"type", S("venue")>>,
          <<"url", S("https://tm/v1")>>,
          <<"city", JObj(<< <<"name", S("Austin")>> >>)>>,
          <<"state", JObj(<< <<"name", S("Texas")>>, <<"stateCode", S("TX")>> >>)>>,
          <<"country", JObj(<< <<"name", S("USA")>>, <<"countryCode", S("US")>> >>)>>,
          <<"address", JObj(<< <<"line1", S("1 Main St")>> >>)>> >>)

AttractionMin == JObj(<< <<"id", S("a0")>>, <<"name", JStr(<<"The ", "\"", "X", "\\">>)>> >>)

AttractionFull ==
  JObj(<< <<"id", S("a1")>>, <<"name", S("Band")>>, <<"url", S("https://tm/a1")>>,
          <<"classifications",
            JArr(<< JObj(<< <<"primary", JBool(FALSE)>>,
                            <<"segment", JObj(<< <<"id", S("s2")>>, <<"name", S("Sports")>> >>)>> >>),
                    JObj(<< <<"primary", JBool(TRUE)>>,
                            <<"segment", JObj(<< <<"id", S("s1")>>, <<"name", S("Music")>> >>)>>,
                            <<"genre", JObj(<< <<"id", S("g1")>>, <<"name", S("Rock")>> >>)>> >>) >>)>> >>)

EventMin == JObj(<< <<"id", S("e0")>>, <<"name", S("Gig")>> >>)

\* an event detail as the data model allows it: with its embedded venues and attractions
EventFull ==
  JObj(<< <<"id", S("e1")>>, <<"name", S("Show")>>, <<"url", S("https://tm/e1")>>,
          <<"images", JArr(<<>>)>>,
          <<"dates", JObj(<< <<"start", JObj(<< <<"localDate", S("2026-05-01")>>,
                                               <<"localTime", S("20:00:00")>> >>)>> >>)>>,
          <<"priceRanges",
            JArr(<< JObj(<< <<"type", S("standard")>>, <<"currency", S("USD")>>,
                            <<"min", JNum(25)>>, <<"max", JNum(120)>> >>) >>)>>,
          <<"_embedded", JObj(<< <<"venues", JArr(<<VenueFull>>)>>,
                                 <<"attractions", JArr(<<AttractionFull>>)>> >>)>> >>)

\* an event whose embedded set carries attractions only and whose start block is empty
EventSparse ==
  JObj(<< <<"id", S("e2")>>, <<"name", S("Match")>>,
          <<"dates", JObj(<< <<"start", JObj(<<>>)>> >>)>>,
          <<"_embedded", JObj(<< <<"attractions", JArr(<<AttractionMin>>)>> >>)>> >>)

Events == {EventMin, EventFull, EventSparse}
Venues == {VenueMin, VenueFull}
Attractions == {AttractionMin, AttractionFull}

\* the sequences over set of length at most n
RECURSIVE SeqsUpTo(_, _)
SeqsUpTo(set, n) ==
  IF n = 0 THEN {<<>>}
  ELSE LET shorter == SeqsUpTo(set, n - 1)
       IN shorter \cup {Append(q, e) : q \in {r \in shorter : Len(r) = n - 1}, e \in set}

PageInfo == JObj(<< <<"size", JNum(20)>>, <<"number", JNum(0)>> >>)

\* a multi-result answer: the arrays nested under the _embedded wrapper
SearchBody(collections) == JObj(<< <<"_embedded", JObj(collections)>>, <<"page", PageInfo>> >>)

SearchBodies ==
  {SearchBody(<< <<"events", JArr(q)>> >>) : q \in SeqsUpTo(Events, MaxElems)}
    \cup {SearchBody(<< <<"venues", JArr(q)>> >>) : q \in SeqsUpTo(Venues, MaxElems)}
    \cup {SearchBody(<< <<"attractions", JArr(q)>> >>) : q \in SeqsUpTo(Attractions, MaxElems)}
    \cup {SearchBody(<< <<"venues", JArr(<<VenueMin>>)>>,
                        <<"attractions", JArr(<<AttractionFull>>)>> >>),
          SearchBody(<<>>),
          JObj(<< <<"page", PageInfo>> >>)}

AllBodies == Events \cup Venues \cup Attractions \cup SearchBodies \cup {JNull}

FewBodies ==
  {EventFull, VenueMin, JNull,
   SearchBody(<< <<"attractions", JArr(<<AttractionMin, AttractionFull>>)>> >>)}

HttpResponseOf(status, statusText, data) ==
  JObj(<< <<"status", JNum(status)>>, <<"statusText", JStr(statusText)>>, <<"data", data>> >>)

ErrorStatuses == {<<404, <<"Not Found">> >>, <<500, <<>> >>, <<304, <<"Not Modified">> >>}

ErrorDatas ==
  {JObj(<< <<"message", S("not found")>> >>), JObj(<< <<"message", JStr(<<>>)>> >>),
   JObj(<< <<"fault", S("boom")>> >>), S("<html>"), JNull}

OkResponses(bodies) == {HttpResponseOf(200, <<"OK">>, b) : b \in bodies}

ErrorResponses == {HttpResponseOf(st[1], st[2], d) : st \in ErrorStatuses, d \in ErrorDatas}

(***************************************************************************)
(* The state machine: one invocation at a time, suspended only while the   *)
(* outbound call is awaited                                                *)
(***************************************************************************)
Init ==
  /\ pc = "idle"
  /\ request = Undefined
  /\ calls = <<>>
  /\ upstream = Undefined
  /\ reply = Undefined
  /\ nInvocations = 0
  /\ nRecognized = 0
  /\ nCalls = 0

\* what the caller of the invocation gets when the try block threw error
Fails(error) ==
  /\ pc' = "failed"
  /\ reply' = [isError |-> TRUE, error |-> CatchBlock(error)]

Returns(text) ==
  /\ pc' = "returned"
  /\ reply' = [isError |-> FALSE, text |-> text]

Recognized(req) ==
  /\ req.name = ToolName
  /\ req.arguments # Undefined
  /\ RecognizedType(req.arguments.type)

\* a tool call arrives and the handler runs up to its await, or to its throw
CallTool(req) ==
  /\ pc = "idle"
  /\ nInvocations < MaxInvocations
  /\ request' = req
  /\ upstream' = Undefined
  /\ nInvocations' = nInvocations + 1
  /\ nRecognized' = nRecognized + (IF Recognized(req) THEN 1 ELSE 0)
  /\ LET d == Dispatch(req.name, req.arguments)
     IN /\ calls' = d.calls
        /\ nCalls' = nCalls + Len(d.calls)
        /\ IF d.thrown # Undefined
           THEN Fails(d.thrown)
           ELSE pc' = "awaiting" /\ reply' = Undefined

\* the upstream answers; axios resolves on a 2xx status and rejects otherwise,
\* and the handler formats the body or maps the rejection
HttpResponse(res) ==
  /\ pc = "awaiting"
  /\ upstream' = [kind |-> "response", response |-> res]
  /\ LET a == Destructure(request.arguments)
         status == Get(res, "status").v
     IN IF ValidateStatus(status)
        THEN LET out == FormatOutput(a.type, a.format, Get(res, "data"))
             IN IF out.thrown # Undefined THEN Fails(out.thrown) ELSE Returns(out.text)
        ELSE Fails(AxiosError(<<"Request failed with status code ">> \o NumToStr(status),
                              JObj(<<>>), res))
  /\ UNCHANGED <<request, calls, nInvocations, nRecognized, nCalls>>

\* the request was sent and no response came back
NoResponse ==
  /\ pc = "awaiting"
  /\ upstream' = [kind |-> "no_response"]
  /\ Fails(AxiosError(<<"Network Error">>, JObj(<<>>), Undefined))
  /\ UNCHANGED <<request, calls, nInvocations, nRecognized, nCalls>>

\* axios failed while setting the request up: neither request nor response is set
RequestNotSent ==
  /\ pc = "awaiting"
  /\ upstream' = [kind |-> "not_sent"]
  /\ Fails(AxiosError(<<"Invalid URL">>, Undefined, Undefined))
  /\ UNCHANGED <<request, calls, nInvocations, nRecognized, nCalls>>

\* the result or the error goes back to the caller; nothing of the invocation is kept
Deliver ==
  /\ pc \in {"returned", "failed"}
  /\ pc' = "idle"
  /\ request' = Undefined
  /\ calls' = <<>>
  /\ upstream' = Undefined
  /\ reply' = Undefined
  /\ UNCHANGED <<nInvocations, nRecognized, nCalls>>

Next ==
  \/ \E req \in Requests : CallTool(req)
  \/ \E res \in OkResponses(FewBodies) \cup ErrorResponses : HttpResponse(res)
  \/ NoResponse
  \/ RequestNotSent
  \/ Deliver

Spec == Init /\ [][Next]_vars

\* the runs that exercise the formatter: fewer filters, every body
NextFormat ==
  \/ \E req \in FormatRequests : CallTool(req)
  \/ \E res \in OkResponses(AllBodies) : HttpResponse(res)
  \/ Deliver

SpecFormat == Init /\ [][NextFormat]_vars

(***************************************************************************)
(* Inputs: the events the event projection is exercised on, answered as the *)
(* one result of an event search                                           *)
(***************************************************************************)
\* a venue with a city and no state
VenueCityOnly ==
  JObj(<< <<"id", S("v2")>>, <<"name", S("Club")>>,
          <<"city", JObj(<< <<"name", S("Oslo")>> >>)>> >>)

\* a venue whose state descriptor carries a name and no state code
VenueStateNoCode ==
  JObj(<< <<"id", S("v3")>>, <<"name", S("Dome")>>,
          <<"city", JObj(<< <<"name", S("London")>> >>)>>,
          <<"state", JObj(<< <<"name", S("England")>> >>)>> >>)

\* a venue with a state and no city
VenueStateOnly ==
  JObj(<< <<"id", S("v4")>>, <<"name", S("Barn")>>,
          <<"state", JObj(<< <<"name", S("Ohio")>>, <<"stateCode", S("OH")>> >>)>> >>)

PriceRange(min, max, currency) ==
  JObj(<< <<"type", S("standard")>>, <<"currency", S(currency)>>, <<"min", JNum(min)>>,
          <<"max", JNum(max)>> >>)

DatesVariants ==
  {Undefined,
   JObj(<< <<"timezone", S("UTC")>> >>),
   JObj(<< <<"start", JObj(<<>>)>> >>),
   JObj(<< <<"start", JObj(<< <<"localDate", S("2026-05-01")>> >>)>> >>),
   JObj(<< <<"start", JObj(<< <<"localDate", S("2026-05-01")>>,
                              <<"localTime", S("20:00:00")>> >>)>> >>)}

EmbeddedVariants ==
  {Undefined,
   JObj(<< <<"attractions", JArr(<<AttractionMin>>)>> >>),
   JObj(<< <<"venues", JArr(<<>>)>> >>)}
    \cup {JObj(<< <<"venues", JArr(<<v>>)>> >>) :
            v \in {VenueMin, VenueFull, VenueCityOnly, VenueStateNoCode, VenueStateOnly}}
    \cup {JObj(<< <<"venues", JArr(<<VenueCityOnly, VenueFull>>)>> >>)}

PriceRangesVariants ==
  {Undefined, JArr(<<>>), JArr(<<PriceRange(25, 120, "USD")>>),
   JArr(<<PriceRange(0, 9, "EUR"), PriceRange(25, 120, "USD")>>)}

UrlVariants == {Undefined, S("https://tm/e")}

MkEvent(dates, embedded, priceRanges, url) ==
  LET opt(k, x) == IF x = Undefined THEN <<>> ELSE << <<k, x>> >>
  IN JObj(<< <<"id", S("e9")>>, <<"name", S("Night")>> >>
            \o opt("url", url) \o opt("dates", dates) \o opt("priceRanges", priceRanges)
            \o opt("_embedded", embedded))

EventVariants ==
  {MkEvent(d, e, p, u) :
     d \in DatesVariants, e \in EmbeddedVariants, p \in PriceRangesVariants, u \in UrlVariants}

EventSearchBodies == {SearchBody(<< <<"events", JArr(<<e>>)>> >>) : e \in EventVariants}

EventSearchRequests ==
  {[name |-> ToolName, arguments |-> a] :
     a \in ArgsOver({S("event")}, {Undefined, S("rock")}, {Undefined}, {Undefined},
                    {Undefined}, {FALSE}, Formats)}

\* the runs that exercise the event projection
NextEvent ==
  \/ \E req \in EventSearchRequests : CallTool(req)
  \/ \E res \in OkResponses(EventSearchBodies) : HttpResponse(res)
  \/ Deliver

SpecEvent == Init /\ [][NextEvent]_vars

(***************************************************************************)
(* JSON.parse, the inverse the round trip is stated with                   *)
(***************************************************************************)
IsSpace(tok) == tok \in {"\n", "  ", " "}

IsDigit(tok) == \E d \in 0..9 : Digit(d) = tok

DigitValue(tok) == CHOOSE d \in 0..9 : Digit(d) = tok

RECURSIVE SkipSpace(_, _)
SkipSpace(toks, i) ==
  IF i <= Len(toks) /\ IsSpace(toks[i]) THEN SkipSpace(toks, i + 1) ELSE i

\* the characters of a string literal, from after its opening quote
RECURSIVE ParseChars(_, _, _)
ParseChars(toks, i, acc) ==
  IF toks[i] = "\"" THEN [v |-> acc, i |-> i + 1]
  ELSE IF toks[i] = "\\" THEN ParseChars(toks, i + 2, Append(acc, toks[i + 1]))
  ELSE ParseChars(toks, i + 1, Append(acc, toks[i]))

RECURSIVE ParseDigits(_, _, _)
ParseDigits(toks, i, acc) ==
  IF i <= Len(toks) /\ IsDigit(toks[i])
  THEN ParseDigits(toks, i + 1, acc * 10 + DigitValue(toks[i]))
  ELSE [v |-> acc, i |-> i]

RECURSIVE ParseValue(_, _)
RECURSIVE ParseElements(_, _, _)
RECURSIVE ParseMembers(_, _, _)
ParseValue(toks, i0) ==
  LET i == SkipSpace(toks, i0)
      tok == toks[i]
  IN CASE tok = "null" -> [v |-> JNull, i |-> i + 1]
       [] tok = "true" -> [v |-> JBool(TRUE), i |-> i + 1]
       [] tok = "false" -> [v |-> JBool(FALSE), i |-> i + 1]
       [] tok = "[]" -> [v |-> JArr(<<>>), i |-> i + 1]
       [] tok = "{}" -> [v |-> JObj(<<>>), i |-> i + 1]
       [] tok = "\"" -> LET r == ParseChars(toks, i + 1, <<>>)
                        IN [v |-> JStr(r.v), i |-> r.i]
       [] tok = "-" -> LET r == ParseDigits(toks, i + 1, 0)
                       IN [v |-> JNum(0 - r.v), i |-> r.i]
       [] tok = "[" -> ParseElements(toks, i + 1, <<>>)
       [] tok = "{" -> ParseMembers(toks, i + 1, <<>>)
       [] OTHER -> LET r == ParseDigits(toks, i, 0)
                   IN [v |-> JNum(r.v), i |-> r.i]

ParseElements(toks, i0, acc) ==
  LET r == ParseValue(toks, i0)
      j == SkipSpace(toks, r.i)
  IN IF toks[j] = ","
     THEN ParseElements(toks, j + 1, Append(acc, r.v))
     ELSE [v |-> JArr(Append(acc, r.v)), i |-> j + 1]

ParseMembers(toks, i0, acc) ==
  LET i == SkipSpace(toks, i0)
      k == ParseChars(toks, i + 1, <<>>)
      c == SkipSpace(toks, k.i)
      r == ParseValue(toks, c + 1)
      j == SkipSpace(toks, r.i)
      members == Append(acc, <<k.v[1], r.v>>)
  IN IF toks[j] = ","
     THEN ParseMembers(toks, j + 1, members)
     ELSE [v |-> JObj(members), i |-> j + 1]

JSONParse(toks) == ParseValue(toks, 1).v

(***************************************************************************)
(* Vocabulary of the properties                                            *)
(***************************************************************************)
\* an invocation of search_tm_partner with an arguments object is in progress or done
Searching == pc # "idle" /\ request.name = ToolName /\ request.arguments # Undefined

Args == request.arguments

\* the upstream answered the awaited call
Answered == upstream # Undefined /\ upstream.kind = "response"

Status == Get(upstream.response, "status").v

Body == Get(upstream.response, "data")

\* the failure kinds of the error design, told apart by the message of the tool error
FailureKind(error) ==
  IF StartsWith(error.message, <<"Ticketmaster Partner API error: ">>) THEN "UpstreamRejected"
  ELSE IF error.message = <<"No response from Ticketmaster Partner API">>
  THEN "UpstreamUnreachable"
  ELSE IF StartsWith(error.message, <<"Error: ">>) THEN "UnknownFailure"
  ELSE "none"

IsSingleFetch(call, path, id) ==
  /\ id.t = "string"
  /\ call.method = "GET"
  /\ call.url = <<path>> \o id.v
  /\ call.params = Undefined

(***************************************************************************)
(* Properties                                                              *)
(***************************************************************************)
\* C1: an invocation with type 'event' and a non-empty eventId issues the single call
\* GET /events/{eventId} with no query parameter, whatever other filters are supplied;
\* GET /events is not called.
C1_EventIdFetchesOnly ==
  (Searching /\ Args.type = S("event") /\ Args.eventId.t = "string" /\ Args.eventId.v # <<>>)
    => /\ Len(calls) = 1
       /\ IsSingleFetch(calls[1], "/events/", Args.eventId)
       /\ \A i \in 1..Len(calls) : calls[i].url # <<"/events">>

C1_Witness ==
  /\ Searching /\ pc = "awaiting"
  /\ Args.type = S("event") /\ Args.eventId = S("E1")
  /\ Args.keyword = S("rock") /\ Args.venueId = S("V1") /\ Args.attractionId = S("A1")
  /\ Args.city # Undefined /\ Args.size # Undefined /\ Args.sort # Undefined
  /\ calls = <<[method |-> "GET", url |-> <<"/events/", "E1">>, params |-> Undefined]>>

\* C2: for type venue (attraction), the single fetch GET /venues/{venueId}
\* (GET /attractions/{attractionId}) is performed iff a non-empty identifier of that kind is
\* supplied and no non-empty keyword is; in every other case the search GET /venues
\* (GET /attractions) is performed, its parameters carry keyword as supplied and carry
\* neither venueId nor attractionId.
C2_VenueAttractionRouting ==
  \A kind \in {"venue", "attraction"} :
    (Searching /\ Args.type = S(kind))
      => LET id == IF kind = "venue" THEN Args.venueId ELSE Args.attractionId
             path == IF kind = "venue" THEN "/venues" ELSE "/attractions"
             fetchPath == IF kind = "venue" THEN "/venues/" ELSE "/attractions/"
             idSupplied == id.t = "string" /\ id.v # <<>>
             keywordPresent == Args.keyword.t = "string" /\ Args.keyword.v # <<>>
         IN /\ Len(calls) = 1
            /\ IsSingleFetch(calls[1], fetchPath, id) <=> (idSupplied /\ ~keywordPresent)
            /\ ~(idSupplied /\ ~keywordPresent)
                 => /\ calls[1].method = "GET"
                    /\ calls[1].url = <<path>>
                    /\ calls[1].params # Undefined
                    /\ "keyword" \in DOMAIN calls[1].params
                    /\ calls[1].params.keyword = Args.keyword
                    /\ "venueId" \notin DOMAIN calls[1].params
                    /\ "attractionId" \notin DOMAIN calls[1].params

C2_Witness ==
  /\ Searching /\ pc = "awaiting"
  /\ Args.type = S("venue") /\ Args.venueId = S("V1") /\ Args.keyword = S("rock")
  /\ calls[1].url = <<"/venues">>
  /\ calls[1].params.keyword = S("rock")

\* C3: an invocation whose type is none of 'event', 'venue', 'attraction' fails with an
\* error of code InvalidParams whose message names the value received, and no outbound
\* call is made.
C3_InvalidTypeIsInvalidParams ==
  (Searching /\ ~RecognizedType(Args.type))
    => /\ pc = "failed"
       /\ reply.isError
       /\ reply.error.name = "McpError"
       /\ reply.error.code = InvalidParams
       /\ Contains(reply.error.message, ToString(Args.type))
       /\ calls = <<>>

\* C4: a tool call whose name is not 'search_tm_partner' fails, as the caller sees it, with
\* an error of code MethodNotFound, and no outbound call is made.
C4_UnknownToolIsMethodNotFound ==
  (pc # "idle" /\ request.name # ToolName)
    => /\ pc = "failed"
       /\ reply.isError
       /\ reply.error.name = "McpError"
       /\ reply.error.code = MethodNotFound
       /\ calls = <<>>

\* C5: when the outbound call gets a non-2xx response the invocation fails with an
\* UpstreamRejected error whose message contains the status code and the message field
\* of the body, or the status text when the body has no message field; a 404 with body
\* {"message":"not found"} gives a message containing '404' and 'not found'.
C5_RejectedMessage ==
  (Answered /\ ~ValidateStatus(Status))
    => /\ pc = "failed"
       /\ reply.isError
       /\ reply.error.name = "McpError"
       /\ FailureKind(reply.error) = "UpstreamRejected"
       /\ Contains(reply.error.message, NumToStr(Status))
       /\ LET message == Get(Body, "message")
          IN IF message # Undefined
             THEN Contains(reply.error.message, message.v)
             ELSE Contains(reply.error.message, Get(upstream.response, "statusText").v)
       /\ (Status = 404 /\ Body = JObj(<< <<"message", S("not found")>> >>))
            => /\ Contains(reply.error.message, <<"4", "0", "4">>)
               /\ Contains(reply.error.message, <<"not found">>)

C5_Witness ==
  /\ pc = "failed" /\ Answered /\ Status = 404
  /\ Body = JObj(<< <<"message", S("not found")>> >>)
  /\ reply.error.message = <<"Ticketmaster Partner API error: ", "4", "0", "4", " - ", "not found">>

\* C6: every failure reaches the caller as an McpError of exactly one kind: UpstreamRejected
\* when the failure carries an upstream response; otherwise UpstreamUnreachable, with the
\* fixed message, when the request was sent and got no response; otherwise UnknownFailure
\* with message 'Error: <description>'.
C6_FailureKinds ==
  /\ pc = "failed"
       => /\ reply.isError
          /\ reply.error.name = "McpError"
          /\ IF Answered /\ ~ValidateStatus(Status)
             THEN FailureKind(reply.error) = "UpstreamRejected"
             ELSE IF upstream # Undefined /\ upstream.kind = "no_response"
             THEN reply.error.message = <<"No response from Ticketmaster Partner API">>
             ELSE /\ FailureKind(reply.error) = "UnknownFailure"
                  /\ Len(reply.error.message) > 1
  /\ (pc = "returned" => ~reply.isError)
  /\ (pc \in {"returned", "failed"} /\ upstream # Undefined /\ upstream.kind # "response")
       => pc = "failed"

C6_Witness ==
  /\ pc = "failed"
  /\ upstream # Undefined /\ upstream.kind = "no_response"
  /\ reply.error = McpError(InternalError, <<"No response from Ticketmaster Partner API">>)

\* C6, second case: a failure that is neither rejected nor unanswered is reported with
\* its description
C6_WitnessUnknown ==
  /\ pc = "failed"
  /\ upstream # Undefined /\ upstream.kind = "not_sent"
  /\ reply.error.message = <<"Error: ", "Invalid URL">>

\* C9: an invocation with a recognized type issues exactly one outbound GET in its
\* lifetime, also after a success, a rejection or an unanswered call; any other
\* invocation issues none; over any sequence of invocations the outbound calls number
\* the invocations with a recognized type on the recognized tool.
C9_OneCallPerInvocation ==
  /\ (pc # "idle" /\ Recognized(request))
       => Len(calls) = 1 /\ calls[1].method = "GET"
  /\ (pc # "idle" /\ ~Recognized(request)) => calls = <<>>
  /\ nCalls = nRecognized

C9_Witness ==
  /\ pc = "failed"
  /\ upstream # Undefined /\ upstream.kind = "no_response"
  /\ Len(calls) = 1
  /\ nInvocations = 2 /\ nRecognized = 2 /\ nCalls = 2

\* C7: with format 'json' or omitted, for every type and for the fetch and the search
\* route alike, the returned text parses back to exactly the upstream body: no field
\* added, removed or changed, whatever the type and the filters.
C7_JsonRoundTrip ==
  (Searching /\ Answered /\ ValidateStatus(Status) /\ Args.format \in {Undefined, S("json")})
    => /\ pc = "returned"
       /\ ~reply.isError
       /\ JSONParse(reply.text) = Body

C7_Witness ==
  /\ pc = "returned" /\ Searching /\ Answered
  /\ Args.format = Undefined /\ Args.type = S("event")
  /\ calls[1].url = <<"/events/", "E1">>
  /\ Body = EventFull
  /\ JSONParse(reply.text) = EventFull
  /\ Len(reply.text) > Len(JSONStringify(VenueFull, 0))

\* the projection of the given kind
Projection(kind, entity) ==
  IF kind = "events" THEN formatEventAsText(entity)
  ELSE IF kind = "venues" THEN formatVenueAsText(entity)
  ELSE formatAttractionAsText(entity)

\* the first collection of the embedded set, in the order events, venues, attractions
FirstCollectionKind(embedded) ==
  IF Get(embedded, "events") # Undefined THEN "events"
  ELSE IF Get(embedded, "venues") # Undefined THEN "venues"
  ELSE IF Get(embedded, "attractions") # Undefined THEN "attractions"
  ELSE "none"

\* the projections of the elements, in order, each but the last followed by the separator
RECURSIVE Projections(_, _)
Projections(kind, elements) ==
  IF Len(elements) = 1 THEN Projection(kind, elements[1])
  ELSE Projection(kind, elements[1]) \o <<"\n\n---\n\n">> \o Projections(kind, Tail(elements))

\* C8: with format 'text' and a body carrying an embedded collection (non-empty, as the
\* data model has it), the output is the projections of the elements of the first
\* collection present in the order events, venues, attractions, one per element, in the
\* upstream order, joined by '\n\n---\n\n'; two venues give
\* projection(venue1) + separator + projection(venue2).
C8_TextOfCollection ==
  (Searching /\ Answered /\ ValidateStatus(Status) /\ Args.format = S("text")
     /\ Body.t = "object" /\ Get(Body, "_embedded") # Undefined
     /\ FirstCollectionKind(Get(Body, "_embedded")) # "none"
     /\ Get(Get(Body, "_embedded"), FirstCollectionKind(Get(Body, "_embedded"))).v # <<>>)
    => LET kind == FirstCollectionKind(Get(Body, "_embedded"))
           elements == Get(Get(Body, "_embedded"), kind).v
       IN /\ pc = "returned"
          /\ reply.text = Projections(kind, elements)
          /\ (kind = "venues" /\ Len(elements) = 2)
               => reply.text = formatVenueAsText(elements[1]) \o <<"\n\n---\n\n">>
                                 \o formatVenueAsText(elements[2])

C8_Witness ==
  /\ pc = "returned" /\ Searching /\ Answered
  /\ Args.format = S("text") /\ Args.type = S("venue")
  /\ Body = SearchBody(<< <<"venues", JArr(<<VenueMin, VenueFull>>)>> >>)
  /\ reply.text = <<"Venue: ", "Hall", " (ID: ", "v0", ")", "\n\n---\n\n",
                    "Venue: ", "Arena", " (ID: ", "v1", ")", "\n",
                    "Address: ", "1 Main St", "\n",
                    "Location: ", "Austin", ", ", "TX", ", ", "US", "\n",
                    "URL: ", "https://tm/v1">>

\* C10: with format 'text', after a single fetch by identifier the output is the
\* projection of the requested kind applied to the returned body, for every body the
\* data model allows: 'Event: <name> (ID: <id>)' comes first for an event, also when it
\* carries its embedded venues and attractions, 'Venue: <name> (ID: <id>)' for a venue,
\* 'Attraction: <name> (ID: <id>)' for an attraction.
C10_TextOfSingleFetch ==
  (Searching /\ Answered /\ ValidateStatus(Status) /\ Args.format = S("text")
     /\ Len(calls) = 1 /\ calls[1].params = Undefined)
    => LET header(label) == <<label>> \o Get(Body, "name").v \o <<" (ID: ">>
                              \o Get(Body, "id").v \o <<")">>
       IN /\ (Args.type = S("event") /\ Body \in Events)
               => /\ pc = "returned"
                  /\ reply.text = formatEventAsText(Body)
                  /\ StartsWith(reply.text, header("Event: "))
          /\ (Args.type = S("venue") /\ Body \in Venues)
               => /\ pc = "returned"
                  /\ reply.text = formatVenueAsText(Body)
                  /\ StartsWith(reply.text, header("Venue: "))
          /\ (Args.type = S("attraction") /\ Body \in Attractions)
               => /\ pc = "returned"
                  /\ reply.text = formatAttractionAsText(Body)
                  /\ StartsWith(reply.text, header("Attraction: "))

\* a string that is there and not empty
Present(x) == x.t = "string" /\ x.v # <<>>

\* the lines the event projection is to give, in order
EventLines(event) ==
  LET start == Get(Get(event, "dates"), "start")
      venues == Get(Get(event, "_embedded"), "venues")
      first == venues.v[1]
      city == Get(Get(first, "city"), "name")
      stateCode == Get(Get(first, "state"), "stateCode")
      prices == Get(event, "priceRanges")
      orTBD(x) == IF Present(x) THEN x.v ELSE <<"TBD">>
      hasVenue == venues.t = "array" /\ venues.v # <<>>
  IN << <<"Event: ">> \o Get(event, "name").v \o <<" (ID: ">> \o Get(event, "id").v \o <<")">> >>
       \o (IF start.t = "object"
           THEN << <<"Date/Time: ">> \o orTBD(Get(start, "localDate")) \o <<" at ">>
                     \o orTBD(Get(start, "localTime")) >>
           ELSE <<>>)
       \o (IF hasVenue THEN << <<"Venue: ">> \o Get(first, "name").v >> ELSE <<>>)
       \o (IF hasVenue /\ Present(city)
           THEN << <<"Location: ">> \o city.v
                     \o (IF Present(stateCode) THEN <<", ">> \o stateCode.v ELSE <<>>) >>
           ELSE <<>>)
       \o (IF prices.t = "array" /\ prices.v # <<>>
           THEN << <<"Price Range: $">> \o NumToStr(Get(prices.v[1], "min").v) \o <<" - $">>
                     \o NumToStr(Get(prices.v[1], "max").v) \o <<" ">>
                     \o Get(prices.v[1], "currency").v >>
           ELSE <<>>)
       \o (IF Present(Get(event, "url")) THEN << <<"URL: ">> \o Get(event, "url").v >> ELSE <<>>)

\* the lines, each but the last followed by a newline
RECURSIVE Lines(_)
Lines(lines) ==
  IF Len(lines) = 1 THEN lines[1] ELSE lines[1] \o <<"\n">> \o Lines(Tail(lines))

\* the one event of an answered event search
FoundEvent == Get(Get(Body, "_embedded"), "events").v[1]

\* C11: for every event the event projection is exactly the header line, then the
\* Date/Time line iff a start block exists, the Venue line iff the embedded venue list is
\* non-empty, the Location line iff that first venue has a city, ', <state code>' appended
\* only if the state code is present, the Price Range line of the first price range iff
\* the list is non-empty, the URL line iff a URL exists, joined by newlines; an event with
\* none of these gives the header line alone.
C11_EventProjection ==
  (Searching /\ Answered /\ ValidateStatus(Status) /\ Args.format = S("text"))
    => /\ pc = "returned"
       /\ reply.text = Lines(EventLines(FoundEvent))
       /\ FoundEvent = MkEvent(Undefined, Undefined, Undefined, Undefined)
            => reply.text = <<"Event: ", "Night", " (ID: ", "e9", ")">>

\* the answer of a search that matched nothing: no embedded wrapper and no entity, or a
\* wrapper whose first collection is empty or that has none of the three collections
NoEntity(body) ==
  /\ body.t = "object"
  /\ IF Get(body, "_embedded") = Undefined
     THEN Get(body, "id") = Undefined /\ Get(body, "name") = Undefined
     ELSE LET kind == FirstCollectionKind(Get(body, "_embedded"))
          IN kind = "none" \/ Get(Get(body, "_embedded"), kind).v = <<>>

\* C12: with format 'text', an answer with no entity to project (embedded wrapper absent,
\* or present with an empty collection or with none of events, venues, attractions)
\* returns exactly 'No results found.'; the text output is never the empty string.
C12_NoResultsSentinel ==
  (Searching /\ Answered /\ ValidateStatus(Status) /\ Args.format = S("text"))
    => /\ pc = "returned" => reply.text # <<>>
       /\ NoEntity(Body) => pc = "returned" /\ reply.text = <<"No results found.">>
====
